---- MODULE Spec2Model ----
(***************************************************************************)
(* FractalBackground: a WebGL canvas that follows the window size, records *)
(* the pointer position and redraws a full-screen quad on every display    *)
(* refresh.  Two variants live in the repository:                          *)
(*   "class"  - js/fractal.js, class FractalBackground (configurable)      *)
(*   "script" - the stand-alone top-level script (unnamed/part_000)        *)
(*                                                                         *)
(* Units.  JavaScript numbers are doubles.  The model keeps them as        *)
(* integers in fixed units:                                                *)
(*   - window, canvas, viewport and raw pointer coordinates: pixels;       *)
(*   - the recorded pointer position (mouseX, mouseY) and the u_mouse      *)
(*     upload: half pixels, because the script variant starts the pointer  *)
(*     at innerWidth / 2, innerHeight / 2;                                 *)
(*   - speed and strength: tenths (1.5 is 15);                             *)
(*   - colour components: hundredths (0.05 is 5).                          *)
(* A value that does not exist (undefined, null, an option not supplied,   *)
(* a uniform never written) is the empty sequence <<>>; a scalar that      *)
(* exists is the one-element sequence <<v>>.                               *)
(* The u_time upload and the clock are left out: no operation reads them   *)
(* back and nothing else depends on them.                                  *)
(***************************************************************************)
EXTENDS Integers, Sequences, FiniteSets, TLC

\* ---------------------------------------------------------------- bounds
\* window.innerWidth / innerHeight range over 1..MaxDim
MaxDim == 2
\* e.clientX / e.clientY range over 0..MaxCoord
MaxCoord == 1

Dims == 1..MaxDim
Coords == 0..MaxCoord
WindowSizes == {<<w, h>> : w \in Dims, h \in Dims}

\* ------------------------------------------------------ program constants
\* fractal.js:33  options.interaction?.strength || 1.5   (tenths)
DefaultStrength == 15
\* fractal.js:36  options.animation?.speed || 1.0        (tenths)
DefaultSpeed == 10
\* fractal.js:184 / part_000:178  gl.drawArrays(gl.TRIANGLES, 0, 6)
VertexCount == 6
\* fractal.js:28  [0.05, 0.08, 0.12]                     (hundredths)
DefaultColorStart == <<5, 8, 12>>
\* fractal.js:29  [0.2, 0.5, 0.55]                       (hundredths)
DefaultColorEnd == <<20, 50, 55>>

Absent == <<>>

\* size of a canvas element whose markup gives no width / height (HTML default)
MarkupCanvas == <<300, 150>>

\* ------------------------------------------------- inputs of the constructor
\* 3-component colour arrays a caller may pass
ColorValues == {<<100, 50, 0>>, <<0, 0, 100>>}
\* numbers a caller may pass as interaction.strength / animation.speed
ScalarValues == {-10, 0}
\* values a caller may pass as interaction.enabled: undefined, true, false, 0
EnabledValues == {"undefined", "true", "false", "0"}

\* new FractalBackground(id) with no options object; also what the script
\* variant, which takes no options, carries
NoOptions ==
    [ colorsStart |-> Absent, colorsEnd |-> Absent, enabled |-> "undefined",
      strength |-> Absent, speed |-> Absent ]

\* the options object of js/demo.js
DemoOptions ==
    [ colorsStart |-> <<5, 8, 12>>, colorsEnd |-> <<20, 50, 55>>, enabled |-> "true",
      strength |-> <<15>>, speed |-> <<15>> ]

OptionalScalars == {Absent} \cup {<<v>> : v \in ScalarValues}
OptionalColors == {Absent} \cup ColorValues

\* The options objects tried: the demo's, and every combination within one
\* option group (colors, interaction, animation) with the other groups absent.
Options ==
    {DemoOptions}
    \cup {[NoOptions EXCEPT !.colorsStart = s, !.colorsEnd = e] :
              s \in OptionalColors, e \in OptionalColors}
    \cup {[NoOptions EXCEPT !.enabled = en, !.strength = st] :
              en \in EnabledValues, st \in OptionalScalars}
    \cup {[NoOptions EXCEPT !.speed = sp] : sp \in OptionalScalars}

NoUniforms ==
    [ u_resolution |-> Absent, u_mouse |-> Absent, u_colorStart |-> Absent,
      u_colorEnd |-> Absent, u_speed |-> Absent, u_strength |-> Absent ]

VARIABLES
    variant,      \* "class" or "script": which of the two programs the page loads
    options,      \* the options object passed to the constructor
    phase,        \* "new", "noCanvas", "noContext", "threw", "running"
    window,       \* <<innerWidth, innerHeight>>
    resizeQueued, \* the window changed size and its resize event is not yet dispatched
    canvas,       \* <<width, height>> of the canvas element; <<>> if the page has none
    gl,           \* "unset" before getContext is called, then "null" or "context"
    viewport,     \* <<x, y, w, h>> of the last gl.viewport call; <<>> before the first
    config,       \* this.config; <<>> until the constructor builds it
    mouse,        \* <<mouseX, mouseY>> in half pixels; <<>> until assigned
    listeners,    \* event types with a handler registered by this program
    build,        \* <<both shaders compiled, program linked>>; <<>> until built
    rafPending,   \* frame callbacks requested and not yet run
    drawn,        \* some gl.drawArrays call has been issued
    uniforms,     \* arguments of the gl.uniform* calls of the most recent handler run
    calls,        \* its other gl / scheduler calls, in order
    lastEvent,    \* the event the page delivered most recently
    lastRaw,      \* <<clientX, clientY>> of the last mousemove the document dispatched
    lastSync,     \* window size read by the most recent resize() / resizeCanvas() run
    frameParity   \* flips on every run of loop() / render()

vars == << variant, options, phase, window, resizeQueued, canvas, gl, viewport, config,
           mouse, listeners, build, rafPending, drawn, uniforms, calls, lastEvent,
           lastRaw, lastSync, frameParity >>

\* pixels to half pixels
Px(n) == 2 * n
\* n / 2, for n in pixels: exact in half pixels
Half(n) == Px(n) \div 2

\* ------------------------------------------------------------ pure helpers
\* Faulty variants of the helpers below, each the result of one plausible slip;
\* the properties at the end of the module tell them from the real ones.
\* the || fallback always taken
ColorAlwaysDefault(opt, default) == default
\* the enabled option ignored
InteractionAlways(opt) == TRUE
\* the viewport given height first
ViewportOfSwapped(cv) == <<0, 0, cv[2], cv[1]>>
\* clientY stored without the flip
MouseMovedNoFlip(cv, x, y) == <<2 * x, 2 * y>>
\* the missing-context guard left out
AttachedCanvasOnly(canvasFound, contextOk) == canvasFound
\* the next frame requested twice
RequestedTwice(pending) == pending + 2
\* the next frame not requested
RequestedNone(pending) == pending

\* options.colors?.start || [default]: an array is truthy, undefined is not
ColorOrDefault(opt, default) == IF opt = Absent THEN default ELSE opt

\* options.x?.y || default, for a number: undefined and 0 are falsy
NumOrDefault(opt, default) ==
    IF opt = Absent THEN default
    ELSE IF opt[1] = 0 THEN default
    ELSE opt[1]

\* options.interaction?.enabled !== false
InteractionEnabled(opt) == opt # "false"

MakeConfig(o) ==
    [ colorsStart |-> ColorOrDefault(o.colorsStart, DefaultColorStart),
      colorsEnd   |-> ColorOrDefault(o.colorsEnd, DefaultColorEnd),
      enabled     |-> InteractionEnabled(o.enabled),
      strength    |-> NumOrDefault(o.strength, DefaultStrength),
      speed       |-> NumOrDefault(o.speed, DefaultSpeed) ]

\* canvas.width = window.innerWidth; canvas.height = window.innerHeight
ResizedCanvas(win) == <<win[1], win[2]>>

\* gl.viewport(0, 0, canvas.width, canvas.height)
ViewportOf(cv) == <<0, 0, cv[1], cv[2]>>

\* mouseX = e.clientX; mouseY = canvas.height - e.clientY
MouseMoved(cv, x, y) == <<Px(x), Px(cv[2] - y)>>

\* the guards at the head of the constructor: canvas found and context obtained
Attached(canvasFound, contextOk) == canvasFound /\ contextOk

\* requestAnimationFrame(loop): one more callback pending
Requested(pending) == pending + 1

\* uniforms written by one run of loop() in the class
ClassUniforms(cv, m, cfg) ==
    [ u_resolution |-> <<cv[1], cv[2]>>,
      u_mouse      |-> m,
      u_colorStart |-> cfg.colorsStart,
      u_colorEnd   |-> cfg.colorsEnd,
      u_speed      |-> <<cfg.speed>>,
      u_strength   |-> <<cfg.strength>> ]

\* uniforms written by one run of render() in the script
ScriptUniforms(cv, m) ==
    [ NoUniforms EXCEPT !.u_resolution = <<cv[1], cv[2]>>, !.u_mouse = m ]

DrawCall == <<"drawArrays", "TRIANGLES", 0, VertexCount>>
RafCall == <<"requestAnimationFrame">>
ViewportCall(cv) == <<"viewport", 0, 0, cv[1], cv[2]>>

\* ------------------------------------------------------------------- Init
Init ==
    /\ variant \in {"class", "script"}
    /\ options \in (IF variant = "class" THEN Options ELSE {NoOptions})
    /\ phase = "new"
    /\ window \in WindowSizes
    /\ resizeQueued = FALSE
    /\ canvas \in {Absent, MarkupCanvas}
    /\ gl = "unset"
    /\ viewport = Absent
    /\ config = Absent
    /\ mouse = Absent
    /\ listeners = {}
    /\ build = Absent
    /\ rafPending = 0
    /\ drawn = FALSE
    /\ uniforms = NoUniforms
    /\ calls = <<>>
    /\ lastEvent = "none"
    /\ lastRaw = Absent
    /\ lastSync = Absent
    /\ frameParity = 0

\* ------------------------------------------------ class FractalBackground
\* resize(): fractal.js:63-67
resize ==
    /\ canvas' = ResizedCanvas(window)
    /\ viewport' = ViewportOf(canvas')
    /\ lastSync' = window
    /\ calls' = <<ViewportCall(canvas')>>
    /\ uniforms' = NoUniforms

\* the mousemove listener registered by init(): fractal.js:52-55
OnMouseMove(x, y) == mouse' = MouseMoved(canvas, x, y)

\* one run of loop(): fractal.js:170-186
loop ==
    /\ uniforms' = ClassUniforms(canvas, mouse, config)
    /\ drawn' = TRUE
    /\ rafPending' = Requested(rafPending - 1)
    /\ calls' = <<DrawCall, RafCall>>
    /\ frameParity' = 1 - frameParity

\* new FractalBackground(canvasId, options): the constructor, init() and every
\* call init() makes, up to and including the first, synchronous run of loop().
\* The environment decides whether a context is obtained, whether each shader
\* compiles, whether the program links, and whether attachShader(program, null)
\* throws a TypeError (current WebIDL bindings) or only records a GL error.
Construct ==
    /\ variant = "class"
    /\ phase = "new"
    /\ lastEvent' = "construct"
    /\ \E attachThrows, linkError, fsError, vsError, contextNull \in BOOLEAN :
         /\ gl' = IF canvas = Absent THEN "unset"
                  ELSE IF contextNull THEN "null" ELSE "context"
         /\ IF ~Attached(canvas # Absent, ~contextNull)
            THEN \* console.error(...); return
                 /\ phase' = IF canvas = Absent THEN "noCanvas" ELSE "noContext"
                 /\ calls' = <<>>
                 /\ UNCHANGED << canvas, viewport, config, mouse, listeners, build,
                                 rafPending, drawn, uniforms, lastSync, frameParity >>
            ELSE LET cfg == MakeConfig(options)
                     cv == ResizedCanvas(window)
                     compiled == ~vsError /\ ~fsError
                 IN  /\ config' = cfg
                     /\ mouse' = <<0, 0>>
                     \* init(): resize(), then the listeners
                     /\ canvas' = cv
                     /\ viewport' = ViewportOf(cv)
                     /\ lastSync' = window
                     /\ listeners' = {"resize"} \cup
                                     (IF cfg.enabled THEN {"mousemove"} ELSE {})
                     /\ IF ~compiled /\ attachThrows
                        THEN \* createShaders() throws out of init() and the constructor
                             /\ phase' = "threw"
                             /\ build' = <<FALSE, FALSE>>
                             /\ calls' = <<ViewportCall(cv)>>
                             /\ UNCHANGED << rafPending, drawn, uniforms, frameParity >>
                        ELSE \* createShaders(), createBuffer(), startAnimation(), loop()
                             /\ phase' = "running"
                             /\ build' = <<compiled, compiled /\ ~linkError>>
                             /\ uniforms' = ClassUniforms(cv, <<0, 0>>, cfg)
                             /\ drawn' = TRUE
                             /\ rafPending' = Requested(rafPending)
                             /\ calls' = <<ViewportCall(cv), DrawCall, RafCall>>
                             /\ frameParity' = 1 - frameParity
    /\ UNCHANGED << variant, options, window, resizeQueued, lastRaw >>

\* ------------------------------------------------- the stand-alone script
\* resizeCanvas(): part_000:9-13.  With gl null the two canvas assignments
\* run and gl.viewport throws.
resizeCanvas ==
    /\ canvas' = ResizedCanvas(window)
    /\ lastSync' = window
    /\ uniforms' = NoUniforms
    /\ IF gl = "null"
       THEN viewport' = viewport /\ calls' = <<>>
       ELSE viewport' = ViewportOf(canvas') /\ calls' = <<ViewportCall(canvas')>>

\* one run of render(): part_000:171-181
render ==
    /\ uniforms' = ScriptUniforms(canvas, mouse)
    /\ drawn' = TRUE
    /\ rafPending' = Requested(rafPending - 1)
    /\ calls' = <<DrawCall, RafCall>>
    /\ frameParity' = 1 - frameParity

\* the script's top-level code, run once when the page loads: part_000:1-183
Load ==
    /\ variant = "script"
    /\ phase = "new"
    /\ lastEvent' = "construct"
    /\ \E attachThrows, linkError, fsError, vsError, contextNull \in BOOLEAN :
         /\ gl' = IF canvas = Absent THEN "unset"
                  ELSE IF contextNull THEN "null" ELSE "context"
         /\ IF canvas = Absent
            THEN \* canvas.getContext on null throws
                 /\ phase' = "threw"
                 /\ calls' = <<>>
                 /\ UNCHANGED << canvas, viewport, mouse, listeners, build,
                                 rafPending, lastSync >>
            ELSE IF contextNull
            THEN \* alert(...); the resize listener is added; resizeCanvas() throws
                 /\ phase' = "threw"
                 /\ listeners' = {"resize"}
                 /\ canvas' = ResizedCanvas(window)
                 /\ lastSync' = window
                 /\ calls' = <<>>
                 /\ UNCHANGED << viewport, mouse, build, rafPending >>
            ELSE LET cv == ResizedCanvas(window)
                     compiled == ~vsError /\ ~fsError
                 IN  /\ canvas' = cv
                     /\ viewport' = ViewportOf(cv)
                     /\ lastSync' = window
                     /\ IF ~compiled /\ attachThrows
                        THEN /\ phase' = "threw"
                             /\ listeners' = {"resize"}
                             /\ build' = <<FALSE, FALSE>>
                             /\ calls' = <<ViewportCall(cv)>>
                             /\ UNCHANGED << mouse, rafPending >>
                        ELSE /\ phase' = "running"
                             /\ listeners' = {"resize", "mousemove"}
                             /\ build' = <<compiled, compiled /\ ~linkError>>
                             /\ mouse' = <<Half(window[1]), Half(window[2])>>
                             /\ rafPending' = Requested(rafPending)
                             /\ calls' = <<ViewportCall(cv), RafCall>>
    /\ UNCHANGED << variant, options, window, resizeQueued, config, drawn,
                    uniforms, lastRaw, frameParity >>

\* ------------------------------------------------- events the page delivers
\* the user resizes the window; the resize event is queued
WindowResized ==
    /\ phase # "new"
    /\ \E win \in WindowSizes :
         /\ win # window
         /\ window' = win
    /\ resizeQueued' = TRUE
    /\ UNCHANGED << variant, options, phase, canvas, gl, viewport, config,
                    mouse, listeners, build, rafPending, drawn, uniforms, calls,
                    lastEvent, lastRaw, lastSync, frameParity >>

\* the window dispatches the queued resize event
ResizeEvent ==
    /\ resizeQueued
    /\ resizeQueued' = FALSE
    /\ lastEvent' = "resize"
    /\ IF "resize" \in listeners
       THEN IF variant = "class" THEN resize ELSE resizeCanvas
       ELSE /\ calls' = <<>>
            /\ uniforms' = NoUniforms
            /\ UNCHANGED << canvas, viewport, lastSync >>
    /\ UNCHANGED << variant, options, phase, window, gl, config, mouse, listeners,
                    build, rafPending, drawn, lastRaw, frameParity >>

\* the document dispatches a mousemove event at (x, y)
MouseMoveEvent ==
    /\ phase # "new"
    /\ \E x \in Coords, y \in Coords :
         /\ lastRaw' = <<x, y>>
         /\ IF "mousemove" \in listeners
            THEN OnMouseMove(x, y)
            ELSE UNCHANGED mouse
    /\ lastEvent' = "mousemove"
    /\ calls' = <<>>
    /\ uniforms' = NoUniforms
    /\ UNCHANGED << variant, options, phase, window, resizeQueued, canvas, gl,
                    viewport, config, listeners, build, rafPending, drawn,
                    lastSync, frameParity >>

\* the display refresh runs one requested frame callback
FrameCallback ==
    /\ rafPending > 0
    /\ lastEvent' = "frame"
    /\ IF variant = "class" THEN loop ELSE render
    /\ UNCHANGED << variant, options, phase, window, resizeQueued, canvas, gl,
                    viewport, config, mouse, listeners, build, lastRaw, lastSync >>

Next ==
    \/ Construct
    \/ Load
    \/ WindowResized
    \/ ResizeEvent
    \/ MouseMoveEvent
    \/ FrameCallback

Spec == Init /\ [][Next]_vars

\* The frame loop under the scheduling requestAnimationFrame gives: every
\* requested callback is eventually run.  The options reach the loop only
\* through the listeners init() registers, so the loop is followed for the
\* default, the demo's and an interaction-disabled configuration.
LoopOptions == {NoOptions, DemoOptions, [NoOptions EXCEPT !.enabled = "false"]}

FairInit == Init /\ options \in LoopOptions

FairSpec == FairInit /\ [][Next]_vars /\ WF_vars(FrameCallback)

\* ------------------------------------------------------- state descriptions
\* the constructor got past both guards: this.config and this.mouseX/Y exist
Constructed == variant = "class" /\ config # Absent

\* loop() / render() is the handler that ran most recently: as the frame
\* callback, or as the synchronous first call at the end of startAnimation()
LoopRan ==
    \/ lastEvent = "frame"
    \/ lastEvent = "construct" /\ variant = "class" /\ phase = "running"

\* a shader failed to compile or the program failed to link
BuildFailed == build # Absent /\ build # <<TRUE, TRUE>>

\* ------------------------------------------------------------------ claims

\* C1: if compiling either shader or linking the program fails during
\* construction, no draw call is ever issued and no frame callback is ever
\* scheduled.
C1_NoLoopAfterBuildFailure ==
    BuildFailed => (~drawn /\ rafPending = 0)

\* C2: if the constructor finds no canvas element, or the element yields no
\* WebGL context, construction stops in the failed state: no resize or
\* mousemove listener is registered, no draw call is issued and no frame
\* callback is scheduled, in any state reachable afterwards.
C2_SurfaceUnavailable ==
    (variant = "class" /\ phase # "new" /\ (canvas = Absent \/ gl = "null"))
        => /\ phase \in {"noCanvas", "noContext"}
           /\ listeners = {}
           /\ ~drawn
           /\ rafPending = 0
           /\ calls = <<>>
           /\ uniforms = NoUniforms

\* a resize and a mousemove event were delivered after construction failed
\* for want of a context
C2_Witness ==
    /\ variant = "class"
    /\ gl = "null"
    /\ phase = "noContext"
    /\ lastRaw # Absent
    /\ lastEvent = "resize"
    /\ window # <<MaxDim, MaxDim>>

\* C3: once the resize handler has run, canvas width and height and the GL
\* viewport equal the window's inner size, and every draw call is issued
\* with the resolution upload, the canvas size and the viewport equal to the
\* window size read by the most recently processed resize (or at start-up),
\* whatever the interleaving of resize, mousemove and frame callbacks.
C3_ResizeSync ==
    (variant = "class" /\ "resize" \in listeners)
        => /\ canvas = lastSync
           /\ viewport = <<0, 0, lastSync[1], lastSync[2]>>
           /\ (lastEvent = "resize" /\ ~resizeQueued) => lastSync = window
           /\ LoopRan => uniforms.u_resolution = lastSync

\* a frame drawn after a processed resize, while the window has already
\* changed again and that resize is still queued
C3_Witness ==
    /\ variant = "class"
    /\ lastEvent = "frame"
    /\ resizeQueued
    /\ window # lastSync
    /\ lastSync = <<1, MaxDim>>
    /\ uniforms.u_resolution = <<1, MaxDim>>

\* C4: constructed with interaction.enabled = false, no sequence of
\* mousemove, resize and frame events changes the recorded pointer position:
\* it stays at the (0, 0) assigned in the constructor, and that is the u_mouse
\* value every frame writes.
C4_InteractionDisabled ==
    (Constructed /\ options.enabled = "false")
        => /\ mouse = <<0, 0>>
           /\ LoopRan => uniforms.u_mouse = <<0, 0>>

\* a frame drawn after a mousemove away from the origin was delivered
C4_Witness ==
    /\ Constructed
    /\ options.enabled = "false"
    /\ lastRaw = <<1, 1>>
    /\ lastEvent = "frame"

\* C5: with interaction enabled (the option absent or anything but false),
\* right after a mousemove at (x, y) is handled the recorded pointer position
\* is (x, H - y), H the canvas height when the event is handled, and the
\* handler leaves the canvas size, the viewport and the configuration alone.
\* The script variant's handler does the same.
C5_PointerFlip ==
    [][ ( /\ MouseMoveEvent
          /\ \/ Constructed /\ options.enabled # "false"
             \/ variant = "script" /\ phase = "running" )
        => /\ mouse' = <<2 * lastRaw'[1], 2 * (canvas[2] - lastRaw'[2])>>
           /\ UNCHANGED << canvas, viewport, config, window >> ]_vars

\* interaction.enabled = 0 counts as enabled; a move to (1, 0) on a canvas of
\* height MaxDim is recorded as (1, MaxDim), in half pixels
C5_Witness ==
    /\ Constructed
    /\ options.enabled = "0"
    /\ lastEvent = "mousemove"
    /\ lastRaw = <<1, 0>>
    /\ canvas[2] = MaxDim
    /\ mouse = <<2, 2 * MaxDim>>

\* C6: when colors.start and colors.end are both supplied, the u_colorStart
\* and u_colorEnd uploads of every frame are exactly the supplied arrays.
C6_ColorsRoundTrip ==
    ( /\ Constructed
      /\ options.colorsStart # Absent
      /\ options.colorsEnd # Absent
      /\ LoopRan )
        => /\ uniforms.u_colorStart = options.colorsStart
           /\ uniforms.u_colorEnd = options.colorsEnd

\* custom colours, uploaded by a frame that follows a mousemove and a resize
C6_Witness ==
    /\ Constructed
    /\ options.colorsStart = <<100, 50, 0>>
    /\ options.colorsEnd = <<0, 0, 100>>
    /\ lastEvent = "frame"
    /\ lastRaw # Absent
    /\ uniforms.u_colorStart = <<100, 50, 0>>
    /\ uniforms.u_colorEnd = <<0, 0, 100>>

\* C7: every number supplied as animation.speed or interaction.strength,
\* 0 and negative numbers included, is the u_speed / u_strength upload of
\* every frame; the defaults 1.0 and 1.5 are used only when the option is
\* not supplied.
C7_ScalarsUnaltered ==
    (Constructed /\ build = <<TRUE, TRUE>> /\ LoopRan)
        => /\ uniforms.u_speed =
                 (IF options.speed = Absent THEN <<10>> ELSE options.speed)
           /\ uniforms.u_strength =
                 (IF options.strength = Absent THEN <<15>> ELSE options.strength)

\* C8: every run of the frame callback issues exactly one draw call of 6
\* vertices and then requests exactly one next frame; a started instance has
\* exactly one frame callback pending between frames, and no state has more
\* than one.
C8_OneFramePending ==
    /\ rafPending <= 1
    /\ phase = "running" => rafPending = 1
    /\ lastEvent = "frame"
          => calls = << <<"drawArrays", "TRIANGLES", 0, 6>>,
                        <<"requestAnimationFrame">> >>

\* a frame callback that ran after a mousemove, with a resize still queued
C8_Witness ==
    /\ lastEvent = "frame"
    /\ phase = "running"
    /\ rafPending = 1
    /\ lastRaw # Absent
    /\ resizeQueued
    /\ frameParity = 1

\* C9: once construction has succeeded the frame loop never stops: the first
\* frame is drawn during construction, no event takes the callback away, and,
\* the display refresh running every requested callback, from every state
\* another draw eventually happens.
C9_LoopNeverStops ==
    /\ [](( Constructed /\ phase = "running" /\ build = <<TRUE, TRUE>> )
            => (drawn /\ rafPending >= 1))
    /\ [][ phase = "running" => phase' = "running" ]_vars
    /\ \A p \in {0, 1} :
          []( ( phase = "running" /\ build = <<TRUE, TRUE>> /\ frameParity = p )
                => <>(frameParity # p /\ lastEvent = "frame") )

\* a successfully built instance, after a mousemove and with a resize queued,
\* has just drawn again
C9_Witness ==
    /\ Constructed
    /\ phase = "running"
    /\ build = <<TRUE, TRUE>>
    /\ lastEvent = "frame"
    /\ lastRaw # Absent
    /\ resizeQueued
    /\ frameParity = 0

\* C10: with interaction enabled, in every state after at least one
\* mousemove, later resizes included, the recorded pointer position equals
\* (lastRawX, current canvas height - lastRawY).
C10_PointerFollowsResize ==
    ( /\ Constructed
      /\ build = <<TRUE, TRUE>>
      /\ options.enabled # "false"
      /\ lastRaw # Absent )
        => mouse = <<2 * lastRaw[1], 2 * (canvas[2] - lastRaw[2])>>

====
